---- MODULE Spec2Model ----
(***************************************************************************)
(* The attendance ledger and the leave workflow of src/app.py: the         *)
(* Attendance and LeaveRequest tables, with one action per request         *)
(* handler.  What a handler answers and what it commits is an operator of  *)
(* the tables and the request (MarkResults, ApproveResult, RejectResult).  *)
(*                                                                         *)
(* A table is a bag of rows: the autoincrement id only tells equal rows    *)
(* apart, which the multiplicity of the bag does.  The timestamps          *)
(* (marked_at, approved_at, created_at) are written and never read by a    *)
(* handler; they are left out.                                             *)
(*                                                                         *)
(* ledger and leaves are the committed Attendance and LeaveRequest tables, *)
(* students and subjects the Student and Subject tables, report the body   *)
(* of the last reporting call, inflight the POSTs to /attendance/mark that *)
(* are between their first query and their commit, users the User table   *)
(* (failed_attempts, is_active), session the browser's login session.      *)
(***************************************************************************)
EXTENDS Integers, Sequences, FiniteSets, Bags, TLC

VARIABLES ledger, leaves, students, subjects, report, inflight, users, session

vars == <<ledger, leaves, students, subjects, report, inflight, users, session>>

(* ------------------------------ bounds -------------------------------- *)
MaxRows == 2
MaxDate == 2
MaxLeaves == 1

(* ------------------------------ roster -------------------------------- *)
\* user.id of the accounts that send requests: the admin init_db creates, two
\* teachers and two students; role is User.role
Users == {"admin", "t1", "t2", "s1", "s2"}

Role(u) ==
    IF u = "admin" THEN "admin"
    ELSE IF u \in {"t1", "t2"} THEN "teacher"
    ELSE "student"

\* Teacher.query.filter_by(user_id=...).first().id
TeacherOf(u) == IF u = "t1" THEN 1 ELSE 2

\* Student.query.filter_by(user_id=...).first().id
StudentOf(u) == IF u = "s1" THEN 1 ELSE 2

StudentIds == {1, 2}

SubjectIds == {1, 2}


\* calendar dates, as day numbers
Dates == 1..MaxDate

\* what a client may send as 'date': the day d stands for its well-formed
\* '%Y-%m-%d' string, 0 for any string strptime rejects
DateStrs == 0..MaxDate

\* (session_type, period) pairs a client sends; "None" is JSON null
Sessions == {<<"FN", "None">>, <<"Period", "1">>}

\* the Timetable rows: the classes the teachers hold, as
\* (teacher_id, subject_id, session_type, period)
Timetable == {<<1, 1, "FN", "None">>, <<2, 2, "Period", "1">>}

\* the TeacherSubject rows: the subjects assigned to the teachers, as
\* (teacher_id, subject_id); the marking page offers a teacher these subjects
TeacherSubject == {<<1, 1>>, <<2, 2>>}

\* the statuses offered by the marking page
MarkStatuses == {"Present", "Absent"}

LeaveTypes == {"Medical", "Personal"}

(* --------------------------- the Attendance table ---------------------- *)
Attendance(student_id, subject_id, teacher_id, date, session_type, period, status, remarks, is_locked) ==
    [student_id |-> student_id, subject_id |-> subject_id, teacher_id |-> teacher_id,
     date |-> date, session_type |-> session_type, period |-> period,
     status |-> status, remarks |-> remarks, is_locked |-> is_locked]

\* the filter without subject_id and period: the teacher's rows of the day's
\* session type
SessionRowsOfDay(L, subject_id, teacher_id, date, session_type, period) ==
    {r \in BagToSet(L) : /\ r.teacher_id = teacher_id
                         /\ r.date = date
                         /\ r.session_type = session_type}

\* Attendance.query.filter_by(subject_id=, teacher_id=, date=, session_type=, period=)
SessionRows(L, subject_id, teacher_id, date, session_type, period) ==
    {r \in BagToSet(L) : /\ r.subject_id = subject_id
                         /\ r.teacher_id = teacher_id
                         /\ r.date = date
                         /\ r.session_type = session_type
                         /\ r.period = period}

\* Query.delete(): every row of S leaves the table
DeleteRows(L, S) == [r \in (DOMAIN L) \ S |-> L[r]]

\* the insert loop consulting the leave table: a student on approved leave
\* that day is stored as OD
RECURSIVE AddItemsOnLeave(_, _, _, _, _, _, _)
AddItemsOnLeave(L, items, subject_id, teacher_id, date, session_type, period) ==
    IF items = <<>> THEN L
    ELSE LET item == Head(items)
             onLeave == \E i \in DOMAIN leaves :
                            /\ leaves[i].status = "approved"
                            /\ leaves[i].student_id = item.student_id
                            /\ leaves[i].from_date <= date
                            /\ date <= leaves[i].to_date
             att == Attendance(item.student_id, subject_id, teacher_id, date,
                               session_type, period,
                               IF onLeave THEN "OD" ELSE item.status, item.remarks, FALSE)
         IN AddItemsOnLeave(L (+) SetToBag({att}), Tail(items), subject_id, teacher_id,
                            date, session_type, period)

\* the for loop over attendance_data: one db.session.add per item
RECURSIVE AddItems(_, _, _, _, _, _, _)
AddItems(L, items, subject_id, teacher_id, date, session_type, period) ==
    IF items = <<>> THEN L
    ELSE LET item == Head(items)
             att == Attendance(item.student_id, subject_id, teacher_id, date,
                               session_type, period, item.status, item.remarks, FALSE)
         IN AddItems(L (+) SetToBag({att}), Tail(items), subject_id, teacher_id,
                     date, session_type, period)

\* merge instead of replace: the rows of the session are kept
ReplaceSessionMerge(L, subject_id, teacher_id, date, session_type, period, items) ==
    AddItems(L, items, subject_id, teacher_id, date, session_type, period)

\* delete-then-insert of one session by one teacher
ReplaceSession(L, subject_id, teacher_id, date, session_type, period, items) ==
    AddItems(DeleteRows(L, SessionRows(L, subject_id, teacher_id, date, session_type, period)),
             items, subject_id, teacher_id, date, session_type, period)

(* --------------------------- requests' inputs -------------------------- *)
Items == [student_id : StudentIds, status : MarkStatuses, remarks : {""}]

RECURSIVE SeqsUpTo(_, _)
SeqsUpTo(S, n) ==
    IF n = 0 THEN {<<>>}
    ELSE LET shorter == SeqsUpTo(S, n - 1)
         IN shorter \cup {Append(s, x) : s \in {t \in shorter : Len(t) = n - 1}, x \in S}

Payloads == SeqsUpTo(Items, MaxRows)

(* --------------------------- the LeaveRequest table -------------------- *)
\* LeaveRequest(student_id=, from_date=, to_date=, leave_type=): status defaults
\* to 'pending', approved_by to NULL
LeaveRequest(student_id, from_date, to_date, leave_type) ==
    [student_id |-> student_id, from_date |-> from_date, to_date |-> to_date,
     leave_type |-> leave_type, status |-> "pending", approved_by |-> "None"]

\* f'Leave approved: {leave.leave_type}'
LeaveRemark(leave_type) == "Leave approved: " \o leave_type

\* the rewrite without the student filter: every row of the date
MarkOnDutyAnyStudent(L, student_id, current_date, leave_type) ==
    LET Rewrite(att) ==
            IF att.date = current_date
            THEN [att EXCEPT !.status = "OD", !.remarks = LeaveRemark(leave_type)]
            ELSE att
    IN BagOfAll(Rewrite, L)

\* one turn of the while loop of approve_leave: every row of the student on
\* current_date gets status OD and the leave's remark
MarkOnDuty(L, student_id, current_date, leave_type) ==
    LET Rewrite(att) ==
            IF att.student_id = student_id /\ att.date = current_date
            THEN [att EXCEPT !.status = "OD", !.remarks = LeaveRemark(leave_type)]
            ELSE att
    IN BagOfAll(Rewrite, L)

\* the loop with "<" for "<=": to_date is left out
RECURSIVE ReconcileLeaveExclusive(_, _, _, _, _)
ReconcileLeaveExclusive(L, student_id, current_date, to_date, leave_type) ==
    IF current_date < to_date
    THEN ReconcileLeaveExclusive(MarkOnDuty(L, student_id, current_date, leave_type),
                                 student_id, current_date + 1, to_date, leave_type)
    ELSE L

\* the while loop of approve_leave, from current_date to to_date
RECURSIVE ReconcileLeave(_, _, _, _, _)
ReconcileLeave(L, student_id, current_date, to_date, leave_type) ==
    IF current_date <= to_date
    THEN ReconcileLeave(MarkOnDuty(L, student_id, current_date, leave_type),
                        student_id, current_date + 1, to_date, leave_type)
    ELSE L

(* ------------------------- what a request does ------------------------- *)
\* the answers of the handlers
MarkedOk == "Attendance marked successfully"

MarkLocked == "Attendance is locked and cannot be modified"

InvalidDate == "Invalid date format"

LeaveApproved == "Leave approved and attendance updated"

LeaveRejected == "Leave request rejected"

\* get_or_404 on an id that is not stored
NotFound == "404 Not Found"

\* the value of .first() when no row matches
NoRow == [is_locked |-> FALSE]

\* the rows .first() may return: the query has no ORDER BY
FirstOf(S) == IF S = {} THEN {NoRow} ELSE S

\* the body of mark_attendance for a POST by teacher teacher_id: the answers it
\* may give and the ledger it leaves with each
MarkResults(L, teacher_id, subject_id, date_str, session_type, period, attendance_data) ==
    IF date_str \notin Dates
    THEN {[response |-> InvalidDate, ledger |-> L]}
    ELSE {IF existing # NoRow /\ existing.is_locked
          THEN [response |-> MarkLocked, ledger |-> L]
          ELSE [response |-> MarkedOk,
                ledger |-> ReplaceSession(L, subject_id, teacher_id, date_str,
                                          session_type, period, attendance_data)]
          : existing \in FirstOf(SessionRows(L, subject_id, teacher_id, date_str,
                                             session_type, period))}

\* the body of approve_leave run by user u
ApproveResult(L, lv, leave_id, u) ==
    IF leave_id \notin DOMAIN lv
    THEN [response |-> NotFound, ledger |-> L, leaves |-> lv]
    ELSE LET leave == lv[leave_id] IN
         [response |-> LeaveApproved,
          leaves |-> [lv EXCEPT ![leave_id] = [leave EXCEPT !.status = "approved",
                                                            !.approved_by = u]],
          ledger |-> ReconcileLeave(L, leave.student_id, leave.from_date,
                                    leave.to_date, leave.leave_type)]

\* the reject handler with the ledger loop of approve_leave copied into it
RejectResultReconciles(L, lv, leave_id, u) ==
    IF leave_id \notin DOMAIN lv
    THEN [response |-> NotFound, ledger |-> L, leaves |-> lv]
    ELSE [response |-> LeaveRejected,
          leaves |-> [lv EXCEPT ![leave_id] = [lv[leave_id] EXCEPT !.status = "rejected",
                                                                   !.approved_by = u]],
          ledger |-> ReconcileLeave(L, lv[leave_id].student_id, lv[leave_id].from_date,
                                    lv[leave_id].to_date, "Rejected")]

\* the body of reject_leave run by user u
RejectResult(L, lv, leave_id, u) ==
    IF leave_id \notin DOMAIN lv
    THEN [response |-> NotFound, ledger |-> L, leaves |-> lv]
    ELSE [response |-> LeaveRejected,
          leaves |-> [lv EXCEPT ![leave_id] = [lv[leave_id] EXCEPT !.status = "rejected",
                                                                   !.approved_by = u]],
          ledger |-> L]

(* ------------------------------- requests ------------------------------ *)
\* role_required: a request by an account without one of the roles
AccessDenied(u, roles) ==
    /\ Role(u) \notin roles
    /\ UNCHANGED vars

\* POST /attendance/mark
mark_attendance(u, subject_id, date_str, session_type, period, attendance_data) ==
    /\ Role(u) = "teacher"
    /\ \E res \in MarkResults(ledger, TeacherOf(u), subject_id, date_str, session_type,
                              period, attendance_data) :
          /\ BagCardinality(res.ledger) <= MaxRows
          /\ ledger' = res.ledger
    /\ UNCHANGED <<leaves, students, subjects, report, inflight, users, session>>

\* POST /leave/apply
apply_leave(u, from_date, to_date, leave_type) ==
    /\ Role(u) = "student"
    /\ Len(leaves) < MaxLeaves
    /\ leaves' = Append(leaves, LeaveRequest(StudentOf(u), from_date, to_date, leave_type))
    /\ UNCHANGED <<ledger, students, subjects, report, inflight, users, session>>

\* GET /leave/approve/<leave_id>
approve_leave(u, leave_id) ==
    /\ Role(u) \in {"teacher", "admin"}
    /\ LET res == ApproveResult(ledger, leaves, leave_id, u) IN
          /\ ledger' = res.ledger
          /\ leaves' = res.leaves
    /\ UNCHANGED <<students, subjects, report, inflight, users, session>>

\* GET /leave/reject/<leave_id>
reject_leave(u, leave_id) ==
    /\ Role(u) \in {"teacher", "admin"}
    /\ LET res == RejectResult(ledger, leaves, leave_id, u) IN
          /\ ledger' = res.ledger
          /\ leaves' = res.leaves
    /\ UNCHANGED <<students, subjects, report, inflight, users, session>>

\* the leave ids a client may ask for: the stored ones and one that is not
LeaveIds == 1..(MaxLeaves + 1)

\* the Student table of the running college: two active students of program 1,
\* semester 1
Students0 ==
    [id \in StudentIds |->
        [roll_number |-> id, program_id |-> 1, semester |-> 1, is_active |-> TRUE]]

\* the Subject table: the two subjects of program 1, semester 1
Subjects0 == [id \in SubjectIds |-> [program_id |-> 1, semester |-> 1]]

\* no reporting call answered yet
NoReport == [op |-> "None"]

\* the concurrent POSTs to /attendance/mark the server works on
Requests == {1, 2}

\* a request slot with no POST in it
IdleReq == [pc |-> "idle"]

\* the User table as the accounts are created: active, no failed attempt
Users0 == [u \in Users |-> [failed_attempts |-> 0, is_active |-> TRUE]]

\* a browser that is not logged in: 'user_id' not in session
NoSession == [user_id |-> "None"]

\* nobody is logged in, no login has failed
InitAccounts ==
    /\ users = Users0
    /\ session = NoSession

\* the roster is in place, nothing is in flight
InitRest ==
    /\ students = Students0
    /\ subjects = Subjects0
    /\ report = NoReport
    /\ inflight = [q \in Requests |-> IdleReq]
    /\ InitAccounts

Init ==
    /\ ledger = EmptyBag
    /\ leaves = <<>>
    /\ InitRest

\* the teachers mark the classes of the timetable, the students apply for
\* leave, the teachers approve and reject
Next ==
    \/ \E u \in Users, roles \in {{"teacher"}, {"student"}, {"teacher", "admin"}} :
          AccessDenied(u, roles)
    \/ \E u \in Users, subject_id \in SubjectIds, date_str \in DateStrs, s \in Sessions,
          attendance_data \in Payloads :
          /\ <<TeacherOf(u), subject_id, s[1], s[2]>> \in Timetable
          /\ mark_attendance(u, subject_id, date_str, s[1], s[2], attendance_data)
    \/ \E u \in Users, from_date \in Dates, to_date \in Dates, leave_type \in LeaveTypes :
          apply_leave(u, from_date, to_date, leave_type)
    \/ \E u \in Users, leave_id \in LeaveIds : approve_leave(u, leave_id)
    \/ \E u \in Users, leave_id \in LeaveIds : reject_leave(u, leave_id)

Spec == Init /\ [][Next]_vars

(* ---------------- any client of the JSON marking endpoint -------------- *)
\* mark_attendance takes subject_id, session_type and period as the client
\* sends them
NextApi ==
    \/ \E u \in Users : AccessDenied(u, {"teacher"})
    \/ \E u \in Users, subject_id \in SubjectIds, date_str \in DateStrs, s \in Sessions,
          attendance_data \in Payloads :
          mark_attendance(u, subject_id, date_str, s[1], s[2], attendance_data)

SpecApi == Init /\ [][NextApi]_vars

(* ------------------- a database that holds locked rows ----------------- *)
\* No handler sets is_locked: a locked row is one the database file held when
\* the process started (ensure_db keeps a compatible file).
StoredRows ==
    {Attendance(st, sj, t, d, s[1], s[2], status, "", locked) :
        st \in StudentIds, sj \in SubjectIds, t \in {TeacherOf(u) : u \in {"t1", "t2"}},
        d \in Dates, s \in Sessions, status \in MarkStatuses, locked \in BOOLEAN}

\* student_id, subject_id, date, session_type, period
Identity(r) == <<r.student_id, r.subject_id, r.date, r.session_type, r.period>>

\* the ledgers of at most n stored rows, one row per identity tuple
RECURSIVE StoredLedgers(_)
StoredLedgers(n) ==
    IF n = 0 THEN {EmptyBag}
    ELSE LET smaller == StoredLedgers(n - 1)
         IN smaller \cup
            {L (+) SetToBag({r}) : <<L, r>> \in
                {p \in smaller \X StoredRows :
                    \A x \in DOMAIN p[1] : Identity(x) # Identity(p[2])}}

InitLocked ==
    /\ ledger \in StoredLedgers(MaxRows)
    /\ leaves = <<>>
    /\ InitRest

SpecLocked == InitLocked /\ [][NextApi]_vars

\* the college at work (Next) on a database that held one locked row of a
\* class of the timetable
InitStored ==
    /\ ledger \in {SetToBag({r}) : r \in
                      {x \in StoredRows :
                          /\ x.is_locked
                          /\ <<x.teacher_id, x.subject_id, x.session_type, x.period>>
                                \in Timetable}}
    /\ leaves = <<>>
    /\ InitRest

SpecStored == InitStored /\ [][Next]_vars

(* ------------------------------ aggregation ---------------------------- *)
\* a filter argument left at its default None ("if subject_id:" is false)
Unfiltered == 0

\* the case expression counting Present only
PresentSetStrict == {"Present"}

\* Attendance.status.in_(['Present', 'Late', 'OD'])
PresentSet == {"Present", "Late", "OD"}

\* func.count(Attendance.id) over the rows S of L
RECURSIVE Tally(_, _)
Tally(L, S) ==
    IF S = {} THEN 0
    ELSE LET r == CHOOSE x \in S : TRUE
         IN L[r] + Tally(L, S \ {r})

\* round((present / total) * 100, 2), in hundredths of a percent: the nearest
\* integer to 10000 * present / total.  A tie needs a total that is a multiple
\* of 32, so below that round-half-even and round-half-up agree.
Round2(present, total) == (20000 * present + total) \div (2 * total)

\* the rows the filters of calculate_attendance_percentage keep
Filtered(L, student_id, subject_id, from_date, to_date) ==
    {r \in DOMAIN L : /\ r.student_id = student_id
                      /\ subject_id # Unfiltered => r.subject_id = subject_id
                      /\ from_date # Unfiltered => r.date >= from_date
                      /\ to_date # Unfiltered => r.date <= to_date}

\* an empty scope counted as full attendance
PercentageFullWhenEmpty(L, student_id, subject_id, from_date, to_date) ==
    LET rows == Filtered(L, student_id, subject_id, from_date, to_date)
        total == Tally(L, rows)
        present == Tally(L, {r \in rows : r.status \in PresentSet})
    IN IF total = 0 THEN 10000 ELSE Round2(present, total)

calculate_attendance_percentage(L, student_id, subject_id, from_date, to_date) ==
    LET rows == Filtered(L, student_id, subject_id, from_date, to_date)
        total == Tally(L, rows)
        present == Tally(L, {r \in rows : r.status \in PresentSet})
    IN IF total = 0 THEN 0 ELSE Round2(present, total)

\* the call calculate_attendance_percentage(student_id, subject_id, from_date,
\* to_date); report holds the arguments and the value returned.  The value
\* depends on the ledger and the arguments only: a run makes one call.
Percentage(student_id, subject_id, from_date, to_date) ==
    /\ report = NoReport
    /\ report' = [op |-> "percentage", student_id |-> student_id,
                  subject_id |-> subject_id, from_date |-> from_date,
                  to_date |-> to_date,
                  value |-> calculate_attendance_percentage(ledger, student_id, subject_id,
                                                            from_date, to_date)]
    /\ UNCHANGED <<ledger, leaves, students, subjects, inflight, users, session>>

\* the statuses a stored row may carry: those of PresentSet, Absent, and ML
\* for the others the column's comment lists
ReportStatuses == {"Present", "Late", "OD", "Absent", "ML"}

ReportRows ==
    {Attendance(st, sj, 1, d, "FN", "None", status, "", FALSE) :
        st \in StudentIds, sj \in SubjectIds, d \in Dates, status \in ReportStatuses}

\* the ledgers of at most n different rows of S
RECURSIVE LedgersOf(_, _)
LedgersOf(S, n) ==
    IF n = 0 THEN {EmptyBag}
    ELSE LET smaller == LedgersOf(S, n - 1)
         IN smaller \cup
            {p[1] (+) SetToBag({p[2]}) :
                p \in {q \in smaller \X S : q[2] \notin DOMAIN q[1]}}

\* ten days of subject 1 for student 1: 6 Present, 2 Late, 1 OD, 1 Absent
SampleLedger ==
    SetToBag({Attendance(1, 1, 1, d, "FN", "None",
                         IF d <= 6 THEN "Present"
                         ELSE IF d <= 8 THEN "Late"
                         ELSE IF d = 9 THEN "OD" ELSE "Absent",
                         "", FALSE) : d \in 1..10})

InitPercentage ==
    /\ ledger \in LedgersOf(ReportRows, MaxRows) \cup {SampleLedger}
    /\ leaves = <<>>
    /\ InitRest

NextPercentage ==
    \E student_id \in StudentIds, subject_id \in SubjectIds \cup {Unfiltered},
       from_date \in Dates \cup {Unfiltered}, to_date \in Dates \cup {Unfiltered} :
        Percentage(student_id, subject_id, from_date, to_date)

SpecPercentage == InitPercentage /\ [][NextPercentage]_vars

(* ------------------------------- defaulters ---------------------------- *)
\* JSON null sent as a student_id: the column is nullable, the row is stored
\* with student_id NULL
NullId == 0

\* the orders in which a query without ORDER BY may return the rows S
Orders(S) ==
    {f \in [1..Cardinality(S) -> S] : \A i, j \in DOMAIN f : f[i] = f[j] => i = j}

\* list.sort left out: the entries stay in the order they were appended
Unsorted(list) == list

\* defaulters.sort(key=lambda x: x['percentage']): list.sort is stable, an
\* entry goes behind the entries whose percentage is not greater
RECURSIVE SortByPercentage(_)
SortByPercentage(list) ==
    IF list = <<>> THEN <<>>
    ELSE LET n == Len(list)
             front == SortByPercentage(SubSeq(list, 1, n - 1))
             x == list[n]
             k == Cardinality({i \in DOMAIN front : front[i].percentage <= x.percentage})
         IN SubSeq(front, 1, k) \o <<x>> \o SubSeq(front, k + 1, Len(front))

\* agg_q joined with Student: the active students that have rows, each with the
\* percentage of all its rows
JoinedAgg(L, st) ==
    {id \in DOMAIN st : st[id].is_active /\ \E r \in DOMAIN L : r.student_id = id}

\* zero_q without the NOT IN filter: every active student
ZeroRecordsOfAllActive(L, st) == {id \in DOMAIN st : st[id].is_active}

\* zero_q: Student.id NOT IN (SELECT student_id FROM attendance) and active.
\* NOT IN over a subquery that returns a NULL is never true.
ZeroRecords(L, st) ==
    LET ids == {r.student_id : r \in DOMAIN L}
    IN {id \in DOMAIN st : /\ st[id].is_active
                           /\ id \notin ids
                           /\ NullId \notin ids}

\* a row of the list: the student and the percentage
DefaulterEntry(L, id) ==
    LET rows == {r \in DOMAIN L : r.student_id = id}
        total == Tally(L, rows)
        present == Tally(L, {r \in rows : r.status \in PresentSet})
    IN [student |-> id, percentage |-> IF total > 0 THEN Round2(present, total) ELSE 0]

\* the lists get_defaulter_students(threshold) may return, one for each order
\* in which the two queries may return their rows; percentages are in
\* hundredths
get_defaulter_students(L, st, threshold) ==
    {SortByPercentage(
        SelectSeq([i \in DOMAIN joined |-> DefaulterEntry(L, joined[i])],
                  LAMBDA e : e.percentage < 100 * threshold)
        \o (IF 0 < threshold
            THEN [i \in DOMAIN zero |-> [student |-> zero[i], percentage |-> 0]]
            ELSE <<>>)) :
        joined \in Orders(JoinedAgg(L, st)), zero \in Orders(ZeroRecords(L, st))}

\* GET /reports/defaulters?threshold=
defaulters_report(u, threshold) ==
    /\ Role(u) \in {"admin", "teacher"}
    /\ report = NoReport
    /\ \E list \in get_defaulter_students(ledger, students, threshold) :
          report' = [op |-> "defaulters", threshold |-> threshold, value |-> list]
    /\ UNCHANGED <<ledger, leaves, students, subjects, inflight, users, session>>

\* int(request.args.get('threshold', 75))
Thresholds == {0, 1, 50, 75, 101}

\* the rows of a ledger the list is computed from; a client of the marking
\* endpoint may have sent null for a student_id
DefaulterRows ==
    {Attendance(st, 1, 1, d, "FN", "None", status, "", FALSE) :
        st \in StudentIds \cup {NullId}, d \in Dates, status \in MarkStatuses}

\* the Student tables: each student active or not, the roll numbers in the
\* order of the ids or against it
Rosters ==
    {[id \in StudentIds |->
        [roll_number |-> IF up THEN id ELSE 3 - id, program_id |-> 1, semester |-> 1,
         is_active |-> active[id]]] :
        up \in BOOLEAN, active \in [StudentIds -> BOOLEAN]}

InitDefaulters ==
    /\ ledger \in LedgersOf(DefaulterRows, MaxRows)
    /\ leaves = <<>>
    /\ students \in Rosters
    /\ subjects = Subjects0
    /\ report = NoReport
    /\ inflight = [q \in Requests |-> IdleReq]
    /\ InitAccounts

NextDefaulters ==
    \/ \E u \in Users : AccessDenied(u, {"admin", "teacher"})
    \/ \E u \in Users, threshold \in Thresholds : defaulters_report(u, threshold)

SpecDefaulters == InitDefaulters /\ [][NextDefaulters]_vars

(* --------------------------- subject breakdown ------------------------- *)
\* Subject.query.filter_by(program_id=student.program_id, semester=student.semester)
SemesterSubjects(st, sj, student_id) ==
    {id \in DOMAIN sj : /\ sj[id].program_id = st[student_id].program_id
                        /\ sj[id].semester = st[student_id].semester}

\* the dict appended for one subject (code, name and type are the subject's)
SubjectEntry(L, student_id, subject_id) ==
    LET rows == {r \in DOMAIN L : r.student_id = student_id /\ r.subject_id = subject_id}
        total == Tally(L, rows)
        present == Tally(L, {r \in rows : r.status \in PresentSet})
    IN [subject |-> subject_id, total |-> total, present |-> present,
        percentage |-> IF total > 0 THEN Round2(present, total) ELSE 0]

\* the breakdown built from a join with the ledger: a subject without rows
\* gets no entry
SubjectAttendanceOfRecorded(L, st, sj, student_id) ==
    IF student_id \notin DOMAIN st THEN {<<>>}
    ELSE {[i \in DOMAIN order |-> SubjectEntry(L, student_id, order[i])] :
            order \in Orders({id \in SemesterSubjects(st, sj, student_id) :
                                \E r \in DOMAIN L : /\ r.student_id = student_id
                                                     /\ r.subject_id = id})}

\* the lists get_student_subject_attendance(student_id) may return, one for
\* each order in which the subject query may return its rows
get_student_subject_attendance(L, st, sj, student_id) ==
    IF student_id \notin DOMAIN st THEN {<<>>}
    ELSE {[i \in DOMAIN order |-> SubjectEntry(L, student_id, order[i])] :
            order \in Orders(SemesterSubjects(st, sj, student_id))}

Unauthorized == "Unauthorized"

\* GET /api/attendance/summary/<student_id>
api_attendance_summary(u, student_id) ==
    /\ report = NoReport
    /\ IF Role(u) = "student" /\ StudentOf(u) # student_id
       THEN report' = [op |-> Unauthorized, user |-> u, student_id |-> student_id]
       ELSE \E subject_wise \in get_student_subject_attendance(ledger, students, subjects,
                                                               student_id) :
              report' = [op |-> "summary", user |-> u, student_id |-> student_id,
                         overall_percentage |->
                             calculate_attendance_percentage(ledger, student_id, Unfiltered,
                                                             Unfiltered, Unfiltered),
                         subject_wise |-> subject_wise]
    /\ UNCHANGED <<ledger, leaves, students, subjects, inflight, users, session>>

\* (program_id, semester) of a student or a subject
Semesters == {<<1, 1>>, <<1, 2>>, <<2, 1>>}

\* the Student tables of the breakdown: student 1 in any semester, student 2 in
\* semester 1 of program 1
SemesterRosters ==
    {[id \in StudentIds |->
        [roll_number |-> id, program_id |-> IF id = 1 THEN ps[1] ELSE 1,
         semester |-> IF id = 1 THEN ps[2] ELSE 1, is_active |-> TRUE]] :
        ps \in Semesters}

\* the Subject tables: each subject in any semester
Catalogs ==
    {[id \in SubjectIds |-> [program_id |-> ps[id][1], semester |-> ps[id][2]]] :
        ps \in [SubjectIds -> Semesters]}

BreakdownRows ==
    {Attendance(st, sj, 1, 1, "FN", "None", status, "", FALSE) :
        st \in StudentIds, sj \in SubjectIds, status \in ReportStatuses}

InitBreakdown ==
    /\ ledger \in LedgersOf(BreakdownRows, MaxRows)
    /\ leaves = <<>>
    /\ students \in SemesterRosters
    /\ subjects \in Catalogs
    /\ report = NoReport
    /\ inflight = [q \in Requests |-> IdleReq]
    /\ InitAccounts

\* the summary of a student, or of an id that no student has
NextBreakdown ==
    \E u \in Users, student_id \in StudentIds \cup {3} :
        api_attendance_summary(u, student_id)

SpecBreakdown == InitBreakdown /\ [][NextBreakdown]_vars

(* ------------------- mark_attendance, statement by statement ----------- *)
\* Each POST runs in its own database session.  ledger is what is committed,
\* which is all another session reads; the DELETE and the inserts of a POST are
\* in its session (work) until db.session.commit().  SQLite admits one writing
\* transaction at a time.
\*
\* the first query of the POST: the date is parsed and existing is read
mark_query(q, u, subject_id, date_str, session_type, period, attendance_data) ==
    /\ inflight[q] = IdleReq
    /\ Role(u) = "teacher"
    /\ IF date_str \notin Dates
       THEN UNCHANGED inflight
       ELSE \E existing \in FirstOf(SessionRows(ledger, subject_id, TeacherOf(u), date_str,
                                                session_type, period)) :
              IF existing # NoRow /\ existing.is_locked
              THEN UNCHANGED inflight
              ELSE inflight' = [inflight EXCEPT ![q] =
                      [pc |-> "checked", teacher_id |-> TeacherOf(u),
                       subject_id |-> subject_id, date |-> date_str,
                       session_type |-> session_type, period |-> period,
                       attendance_data |-> attendance_data]]
    /\ UNCHANGED <<ledger, leaves, students, subjects, report, users, session>>

\* the DELETE committed on its own, before the inserts
mark_delete_committed(q) ==
    /\ inflight[q].pc = "checked"
    /\ \A o \in Requests : inflight[o].pc # "writing"
    /\ LET rq == inflight[q]
           deleted == DeleteRows(ledger, SessionRows(ledger, rq.subject_id, rq.teacher_id,
                                                     rq.date, rq.session_type, rq.period))
       IN /\ ledger' = deleted
          /\ inflight' = [inflight EXCEPT ![q] =
                [rq EXCEPT !.pc = "writing"] @@ [work |-> deleted, todo |-> rq.attendance_data]]
    /\ UNCHANGED <<leaves, students, subjects, report, users, session>>

\* Query.delete(): the DELETE runs in the session and opens the writing
\* transaction, which waits while another one is open
mark_delete(q) ==
    /\ inflight[q].pc = "checked"
    /\ \A o \in Requests : inflight[o].pc # "writing"
    /\ LET rq == inflight[q] IN
       inflight' = [inflight EXCEPT ![q] =
          [rq EXCEPT !.pc = "writing"] @@
          [work |-> DeleteRows(ledger, SessionRows(ledger, rq.subject_id, rq.teacher_id,
                                                   rq.date, rq.session_type, rq.period)),
           todo |-> rq.attendance_data]]
    /\ UNCHANGED <<ledger, leaves, students, subjects, report, users, session>>

\* one turn of the for loop: item['status'] of an item without the key raises
\* KeyError, the request ends and its session is rolled back
mark_add(q) ==
    /\ inflight[q].pc = "writing"
    /\ inflight[q].todo # <<>>
    /\ LET rq == inflight[q]
           item == Head(rq.todo)
       IN IF "status" \notin DOMAIN item
          THEN inflight' = [inflight EXCEPT ![q] = IdleReq]
          ELSE inflight' = [inflight EXCEPT ![q] =
                  [rq EXCEPT !.work = AddItems(rq.work, <<item>>, rq.subject_id, rq.teacher_id,
                                               rq.date, rq.session_type, rq.period),
                             !.todo = Tail(rq.todo)]]
    /\ UNCHANGED <<ledger, leaves, students, subjects, report, users, session>>

\* db.session.commit() after the loop
mark_commit(q) ==
    /\ inflight[q].pc = "writing"
    /\ inflight[q].todo = <<>>
    /\ BagCardinality(inflight[q].work) <= MaxRows
    /\ ledger' = inflight[q].work
    /\ inflight' = [inflight EXCEPT ![q] = IdleReq]
    /\ UNCHANGED <<leaves, students, subjects, report, users, session>>

\* the items a client posts for the session: two well-formed ones and one
\* without 'status'
PostedItems ==
    {[student_id |-> 1, status |-> "Present", remarks |-> ""],
     [student_id |-> 2, status |-> "Absent", remarks |-> ""],
     [student_id |-> 1, remarks |-> ""]}

\* POSTs of teacher t1 for the FN session of subject 1 on day 1, two at a time,
\* and the overall percentage of student 1 read in between
NextTxn ==
    \/ \E q \in Requests, date_str \in {0, 1},
          attendance_data \in SeqsUpTo(PostedItems, MaxRows) :
          mark_query(q, "t1", 1, date_str, "FN", "None", attendance_data)
    \/ \E q \in Requests : mark_delete(q)
    \/ \E q \in Requests : mark_add(q)
    \/ \E q \in Requests : mark_commit(q)
    \/ Percentage(1, Unfiltered, Unfiltered, Unfiltered)

SpecTxn == Init /\ [][NextTxn]_vars

(* ------------------- ids that are not in the roster -------------------- *)
\* an id of no student and no subject
Missing == 3

\* the items of a client that also names the missing student
ForeignItems ==
    [student_id : StudentIds \cup {Missing}, status : {"Present"}, remarks : {""}]

\* POSTs for the FN session of day 1 that may name the missing subject or the
\* missing student
NextForeign ==
    \/ \E u \in Users : AccessDenied(u, {"teacher"})
    \/ \E u \in Users, subject_id \in SubjectIds \cup {Missing},
          attendance_data \in SeqsUpTo(ForeignItems, MaxRows) :
          mark_attendance(u, subject_id, 1, "FN", "None", attendance_data)

SpecForeign == Init /\ [][NextForeign]_vars

(* ----------------------------- attendance view ------------------------- *)
\* .limit(200)
ViewLimit == 200

\* every role given the rows of the admin view
ViewRowsOfAll(L, st, sj, u) ==
    {r \in DOMAIN L : r.subject_id \in DOMAIN sj /\ r.student_id \in DOMAIN st}

\* the rows view_attendance selects for the logged-in user: a student's own
\* rows joined with Subject, a teacher's rows and the admin's all rows joined
\* with Subject and Student
ViewRows(L, st, sj, u) ==
    IF Role(u) = "student"
    THEN {r \in DOMAIN L : r.student_id = StudentOf(u) /\ r.subject_id \in DOMAIN sj}
    ELSE IF Role(u) = "teacher"
    THEN {r \in DOMAIN L : /\ r.teacher_id = TeacherOf(u)
                           /\ r.subject_id \in DOMAIN sj
                           /\ r.student_id \in DOMAIN st}
    ELSE {r \in DOMAIN L : r.subject_id \in DOMAIN sj /\ r.student_id \in DOMAIN st}

\* the lists the query may return: the selected rows, each as often as it is
\* stored, by date descending, at most 200 of them
ViewLists(L, st, sj, u) ==
    LET stored == UNION {{<<r, k>> : k \in 1..L[r]} : r \in ViewRows(L, st, sj, u)}
        byDate == {o \in Orders(stored) :
                      \A i, j \in DOMAIN o : i < j => o[i][1].date >= o[j][1].date}
    IN {[i \in 1..(IF Len(o) < ViewLimit THEN Len(o) ELSE ViewLimit) |-> o[i][1]] :
            o \in byDate}

\* GET /attendance/view
view_attendance(u) ==
    /\ report = NoReport
    /\ \E list \in ViewLists(ledger, students, subjects, u) :
          report' = [op |-> "view", user |-> u, value |-> list]
    /\ UNCHANGED <<ledger, leaves, students, subjects, inflight, users, session>>

\* what the users read: the summary of a student, or of an id that no student
\* has, and the attendance view
NextViews ==
    \/ \E u \in Users, student_id \in StudentIds \cup {3} :
          api_attendance_summary(u, student_id)
    \/ \E u \in Users : view_attendance(u)

SpecViews == InitBreakdown /\ [][NextViews]_vars

(* --------------------------------- login ------------------------------- *)
\* user.failed_attempts >= 5
LockoutThreshold == 5

\* what a client types as password: the account's password or another string
Passwords == {"right", "wrong"}

\* the usernames a client types: the accounts and a name of no account
LoginNames == Users \cup {"nobody"}

AccountLocked == "Account locked due to multiple failed attempts. Contact administrator."

Welcome == "Welcome back"

InvalidCredentials == "Invalid credentials"

InvalidOrInactive == "Invalid credentials or account inactive"

\* the lock test written with > for >=
LoginResultLockAbove(us, se, username, password) ==
    IF username \in DOMAIN us /\ us[username].is_active
    THEN IF us[username].failed_attempts > LockoutThreshold
         THEN [response |-> AccountLocked, users |-> us, session |-> se]
         ELSE IF password = "right"
         THEN [response |-> Welcome,
               users |-> [us EXCEPT ![username].failed_attempts = 0],
               session |-> [user_id |-> username, role |-> Role(username)]]
         ELSE [response |-> InvalidCredentials,
               users |-> [us EXCEPT ![username].failed_attempts = @ + 1],
               session |-> se]
    ELSE [response |-> InvalidOrInactive, users |-> us, session |-> se]

\* the POST branch of login: the answer, the User table and the session it
\* leaves
LoginResult(us, se, username, password) ==
    IF username \in DOMAIN us /\ us[username].is_active
    THEN IF us[username].failed_attempts >= LockoutThreshold
         THEN [response |-> AccountLocked, users |-> us, session |-> se]
         ELSE IF password = "right"
         THEN [response |-> Welcome,
               users |-> [us EXCEPT ![username].failed_attempts = 0],
               session |-> [user_id |-> username, role |-> Role(username)]]
         ELSE [response |-> InvalidCredentials,
               users |-> [us EXCEPT ![username].failed_attempts = @ + 1],
               session |-> se]
    ELSE [response |-> InvalidOrInactive, users |-> us, session |-> se]

\* POST /login
login(username, password) ==
    /\ LET res == LoginResult(users, session, username, password) IN
          /\ users' = res.users
          /\ session' = res.session
    /\ UNCHANGED <<ledger, leaves, students, subjects, report, inflight>>

\* GET /logout
logout ==
    /\ session # NoSession
    /\ session' = NoSession
    /\ UNCHANGED <<ledger, leaves, students, subjects, report, inflight, users>>

\* the accounts of a database in which student s2 may have been deactivated
InitLogin ==
    /\ ledger = EmptyBag
    /\ leaves = <<>>
    /\ students = Students0
    /\ subjects = Subjects0
    /\ report = NoReport
    /\ inflight = [q \in Requests |-> IdleReq]
    /\ users \in {[Users0 EXCEPT !["s2"].is_active = active] : active \in BOOLEAN}
    /\ session = NoSession

NextLogin ==
    \/ \E username \in LoginNames, password \in Passwords : login(username, password)
    \/ logout

SpecLogin == InitLogin /\ [][NextLogin]_vars

(* ------------------------------- properties ---------------------------- *)
Teachers == {u \in Users : Role(u) = "teacher"}

\* the accounts the leave routes admit
Approvers == {u \in Users : Role(u) \in {"teacher", "admin"}}

\* the rows of L that are in S, with their multiplicities
RowsIn(L, S) == [r \in (DOMAIN L) \cap S |-> L[r]]

\* the rows stored for a session key by any teacher
KeyRows(L, subject_id, date, session_type, period) ==
    RowsIn(L, {r \in DOMAIN L : /\ r.subject_id = subject_id
                                 /\ r.date = date
                                 /\ r.session_type = session_type
                                 /\ r.period = period})

\* the rows stored for a session key by one teacher
SessionBag(L, subject_id, teacher_id, date, session_type, period) ==
    RowsIn(L, SessionRows(L, subject_id, teacher_id, date, session_type, period))

\* a row as a submitted entry: student, status and remarks
Entry(r) == [student_id |-> r.student_id, status |-> r.status, remarks |-> r.remarks]

\* the entries of a payload, with their multiplicities
PayloadBag(items) ==
    [it \in {items[i] : i \in DOMAIN items} |->
        Cardinality({i \in DOMAIN items : items[i] = it})]

\* a row without what approve_leave writes
Frame(r) == [r EXCEPT !.status = "", !.remarks = ""]

InRange(r, leave) ==
    /\ r.student_id = leave.student_id
    /\ leave.from_date <= r.date
    /\ r.date <= leave.to_date

\* C1: the ledger holds at most one attendance record per identity tuple
\* (student_id, subject_id, date, session_type, period).
C1_OneRecordPerIdentity ==
    \A r1 \in DOMAIN ledger :
        /\ ledger[r1] = 1
        /\ \A r2 \in DOMAIN ledger : Identity(r1) = Identity(r2) => r1 = r2

\* C2: after a successful recordSession by teacher T on a key, every record of
\* that key carries teacher_id = T: none written by another teacher remains.
C2_ReplaceRemovesEveryTeachersRows ==
    \A u \in Teachers, subject_id \in SubjectIds, date \in Dates, s \in Sessions,
       items \in Payloads :
        \A res \in MarkResults(ledger, TeacherOf(u), subject_id, date, s[1], s[2], items) :
            res.response = MarkedOk =>
                \A r \in DOMAIN KeyRows(res.ledger, subject_id, date, s[1], s[2]) :
                    r.teacher_id = TeacherOf(u)

\* C3: replacement semantics: after a successful recordSession on a key, the
\* records of that key are exactly the entries of that call, whatever an
\* earlier recordSession on the key had stored.
C3_KeyHoldsExactlyLastEntries ==
    \A u \in Teachers, subject_id \in SubjectIds, date \in Dates, s \in Sessions,
       items \in Payloads :
        \A res \in MarkResults(ledger, TeacherOf(u), subject_id, date, s[1], s[2], items) :
            res.response = MarkedOk =>
                BagOfAll(Entry, KeyRows(res.ledger, subject_id, date, s[1], s[2]))
                    = PayloadBag(items)

\* C4: recordSession is idempotent: a second call with the arguments of a
\* successful call succeeds and leaves the ledger the first call left.
C4_MarkIdempotent ==
    \A u \in Teachers, subject_id \in SubjectIds, date \in Dates, s \in Sessions,
       items \in Payloads :
        \A once \in MarkResults(ledger, TeacherOf(u), subject_id, date, s[1], s[2], items) :
            once.response = MarkedOk =>
                \A twice \in MarkResults(once.ledger, TeacherOf(u), subject_id, date,
                                         s[1], s[2], items) :
                    /\ twice.response = MarkedOk
                    /\ twice.ledger = once.ledger

\* a session of two stored rows that a resubmission of its two entries leaves
\* as it is
C4_Witness_ResubmittedSession ==
    \E u \in Teachers, subject_id \in SubjectIds, date \in Dates, s \in Sessions,
       items \in Payloads :
        /\ Len(items) = 2
        /\ BagCardinality(RowsIn(ledger, {r \in DOMAIN ledger : r.teacher_id = TeacherOf(u)})) = 2
        /\ [response |-> MarkedOk, ledger |-> ledger]
              \in MarkResults(ledger, TeacherOf(u), subject_id, date, s[1], s[2], items)

\* C5: when any record of the key is locked, recordSession fails with the
\* locked-session answer and leaves the ledger unchanged, whichever record is
\* the locked one and whichever teacher created it.
C5_LockedKeyRejectsEveryCall ==
    \A u \in Teachers, subject_id \in SubjectIds, date \in Dates, s \in Sessions,
       items \in Payloads :
        (\E r \in DOMAIN KeyRows(ledger, subject_id, date, s[1], s[2]) : r.is_locked) =>
            \A res \in MarkResults(ledger, TeacherOf(u), subject_id, date, s[1], s[2], items) :
                /\ res.response = MarkLocked
                /\ res.ledger = ledger

\* C6: approveLeave on a pending leave sets its status to approved with the
\* approver recorded, and leaves every record of the leave's student dated
\* within [from_date, to_date] with status OD and the leave type's remark.
C6_ApproveMarksRangeOnDuty ==
    \A leave_id \in DOMAIN leaves, u \in Approvers :
        leaves[leave_id].status = "pending" =>
            LET res == ApproveResult(ledger, leaves, leave_id, u)
                leave == leaves[leave_id]
            IN /\ res.response = LeaveApproved
               /\ res.leaves[leave_id].status = "approved"
               /\ res.leaves[leave_id].approved_by = u
               /\ \A r \in DOMAIN res.ledger :
                     InRange(r, leave) =>
                        /\ r.status = "OD"
                        /\ r.remarks = "Leave approved: " \o leave.leave_type
               /\ BagCardinality(RowsIn(res.ledger, {r \in DOMAIN res.ledger : InRange(r, leave)}))
                     = BagCardinality(RowsIn(ledger, {r \in DOMAIN ledger : InRange(r, leave)}))

\* an approved leave with a record in its range, on duty with its remark
C6_Witness_ApprovedOnDuty ==
    \E leave_id \in DOMAIN leaves :
        /\ leaves[leave_id].status = "approved"
        /\ leaves[leave_id].approved_by \in Approvers
        /\ \E r \in DOMAIN ledger :
              /\ InRange(r, leaves[leave_id])
              /\ r.status = "OD"
              /\ r.remarks = "Leave approved: " \o leaves[leave_id].leave_type

\* C7: approveLeave creates and deletes no record (the records, status and
\* remarks aside, are the same before and after), and the records of other
\* students or dated outside [from_date, to_date] are left as they are.
C7_ApproveTouchesOnlyExistingInRange ==
    \A leave_id \in DOMAIN leaves, u \in Approvers :
        LET res == ApproveResult(ledger, leaves, leave_id, u)
            leave == leaves[leave_id]
        IN /\ BagOfAll(Frame, res.ledger) = BagOfAll(Frame, ledger)
           /\ RowsIn(res.ledger, {r \in DOMAIN res.ledger : ~InRange(r, leave)})
                 = RowsIn(ledger, {r \in DOMAIN ledger : ~InRange(r, leave)})

\* an approved leave over both dates whose student has a record on one date
\* only, beside a record of the other student in the range that is not on duty
C7_Witness_GapAndOtherStudent ==
    \E leave_id \in DOMAIN leaves :
        LET leave == leaves[leave_id] IN
        /\ leave.status = "approved"
        /\ leave.from_date < leave.to_date
        /\ \E r \in DOMAIN ledger : InRange(r, leave) /\ r.status = "OD"
        /\ \E d \in leave.from_date..leave.to_date :
              \A r \in DOMAIN ledger : ~(r.student_id = leave.student_id /\ r.date = d)
        /\ \E r \in DOMAIN ledger :
              /\ r.student_id # leave.student_id
              /\ r.date \in leave.from_date..leave.to_date
              /\ r.status # "OD"

\* C8: the order of approval and marking decides the stored status: once a
\* leave is approved, a recordSession for a date in its range stores each
\* status as submitted; while it is pending, its approval turns the statuses
\* recorded before into OD.
C8_ApprovalOrderDecides ==
    \A leave_id \in DOMAIN leaves :
        LET leave == leaves[leave_id] IN
        /\ leave.status = "approved" =>
              \A u \in Teachers, subject_id \in SubjectIds, s \in Sessions,
                 date \in leave.from_date..leave.to_date, items \in Payloads :
                  \A res \in MarkResults(ledger, TeacherOf(u), subject_id, date,
                                         s[1], s[2], items) :
                      res.response = MarkedOk =>
                          BagOfAll(Entry, SessionBag(res.ledger, subject_id, TeacherOf(u),
                                                     date, s[1], s[2]))
                              = PayloadBag(items)
        /\ leave.status = "pending" =>
              \A u \in Approvers :
                  \A r \in DOMAIN ApproveResult(ledger, leaves, leave_id, u).ledger :
                      InRange(r, leave) => r.status = "OD"

\* an approved leave over both dates: the record marked before the approval
\* is on duty, the one marked after it holds the submitted status
C8_Witness_BothOrders ==
    \E leave_id \in DOMAIN leaves :
        LET leave == leaves[leave_id] IN
        /\ leave.status = "approved"
        /\ \E r \in DOMAIN ledger : InRange(r, leave) /\ r.status = "OD"
        /\ \E r \in DOMAIN ledger : InRange(r, leave) /\ r.status \in MarkStatuses

\* C9: approveLeave and rejectLeave on a leave that is not pending fail and
\* change neither the leave nor any attendance record.
C9_NonPendingLeaveIsRefused ==
    \A leave_id \in DOMAIN leaves, u \in Approvers :
        leaves[leave_id].status # "pending" =>
            /\ LET res == ApproveResult(ledger, leaves, leave_id, u)
               IN /\ res.response # LeaveApproved
                  /\ res.leaves = leaves
                  /\ res.ledger = ledger
            /\ LET res == RejectResult(ledger, leaves, leave_id, u)
               IN /\ res.response # LeaveRejected
                  /\ res.leaves = leaves
                  /\ res.ledger = ledger

\* C10: a leave is created pending and its status changes once: an approved
\* or rejected leave keeps its status in every later step.
C10_LeaveStatusChangesOnce ==
    [][/\ Len(leaves') >= Len(leaves)
       /\ \A i \in DOMAIN leaves :
             leaves[i].status # "pending" => leaves'[i].status = leaves[i].status
       /\ \A i \in (DOMAIN leaves') \ (DOMAIN leaves) : leaves'[i].status = "pending"]_vars

\* C11: rejectLeave sets the leave's status to rejected and records the
\* approver, leaves the other leaves as they are, and leaves the ledger
\* identical.
C11_RejectStampsLeaveOnly ==
    \A leave_id \in DOMAIN leaves, u \in Approvers :
        LET res == RejectResult(ledger, leaves, leave_id, u) IN
        /\ res.response = LeaveRejected
        /\ res.leaves[leave_id].status = "rejected"
        /\ res.leaves[leave_id].approved_by = u
        /\ DOMAIN res.leaves = DOMAIN leaves
        /\ \A i \in DOMAIN leaves :
              /\ i # leave_id => res.leaves[i] = leaves[i]
              /\ [res.leaves[i] EXCEPT !.status = "", !.approved_by = ""]
                    = [leaves[i] EXCEPT !.status = "", !.approved_by = ""]
        /\ res.ledger = ledger

\* a rejected leave, stamped, whose student has a record in its range that
\* still holds the status the teacher marked
C11_Witness_RejectedWithRecord ==
    \E leave_id \in DOMAIN leaves :
        /\ leaves[leave_id].status = "rejected"
        /\ leaves[leave_id].approved_by \in Approvers
        /\ \E r \in DOMAIN ledger :
              InRange(r, leaves[leave_id]) /\ r.status \in MarkStatuses

\* the records of the reported call's student that its filters keep
ReportScope ==
    RowsIn(ledger, {r \in DOMAIN ledger :
        /\ r.student_id = report.student_id
        /\ report.subject_id = 0 \/ r.subject_id = report.subject_id
        /\ report.from_date = 0 \/ report.from_date <= r.date
        /\ report.to_date = 0 \/ r.date <= report.to_date})

\* C12: percentage is 100 * (in-scope records that are Present, Late or OD) /
\* (in-scope records), rounded to two decimals (the value is within half a
\* hundredth of the quotient); Absent and other statuses count in the
\* denominator only; 6 Present, 2 Late, 1 OD, 1 Absent gives 90.0.
C12_PercentageIsPresentShare ==
    report.op = "percentage" =>
        LET total == BagCardinality(ReportScope)
            other == BagCardinality(RowsIn(ReportScope,
                        {r \in DOMAIN ReportScope : r.status \notin {"Present", "Late", "OD"}}))
            exact == 10000 * (total - other)
        IN /\ total > 0 =>
                /\ 2 * (report.value * total - exact) <= total
                /\ 2 * (exact - report.value * total) <= total
           /\ (/\ ledger = SampleLedger
               /\ report.student_id = 1
               /\ report.subject_id = 0 /\ report.from_date = 0 /\ report.to_date = 0)
                  => report.value = 9000

\* a percentage over a scope that mixes Late or OD with Absent or ML records
\* and leaves a record of the student out
C12_Witness_MixedScope ==
    /\ report.op = "percentage"
    /\ \E r \in DOMAIN ReportScope : r.status \in {"Late", "OD"}
    /\ \E r \in DOMAIN ReportScope : r.status \in {"Absent", "ML"}
    /\ report.value = 5000
    /\ report.subject_id # 0

\* C13: percentage returns 0 whenever the student has no record in the
\* requested scope.
C13_EmptyScopeGivesZero ==
    (report.op = "percentage" /\ BagCardinality(ReportScope) = 0) => report.value = 0

\* a percentage asked with filters that keep none of the student's present
\* records: 0 is returned
C13_Witness_FilteredToNothing ==
    /\ report.op = "percentage"
    /\ BagCardinality(ReportScope) = 0
    /\ \E r \in DOMAIN ledger : r.student_id = report.student_id /\ r.status = "Present"
    /\ report.value = 0

\* the students the reported list names
Listed == {report.value[i].student : i \in DOMAIN report.value}

\* C14: defaulters(threshold) lists a student if and only if the student is
\* active and its overall percentage is below the threshold, once and with
\* that percentage: an active student with no record is listed at 0.0 for any
\* positive threshold, no inactive student is listed.
C14_DefaultersAreActiveBelowThreshold ==
    report.op = "defaulters" =>
        /\ \A id \in DOMAIN students :
              id \in Listed <=>
                  /\ students[id].is_active
                  /\ calculate_attendance_percentage(ledger, id, 0, 0, 0)
                        < 100 * report.threshold
        /\ \A i, j \in DOMAIN report.value :
              /\ report.value[i].student \in DOMAIN students
              /\ report.value[i].percentage
                    = calculate_attendance_percentage(ledger, report.value[i].student, 0, 0, 0)
              /\ report.value[i].student = report.value[j].student => i = j

\* C15: the list of defaulters(threshold) is ascending by percentage, and
\* entries of equal percentage are ascending by roll number.
C15_AscendingThenByRoll ==
    report.op = "defaulters" =>
        \A i, j \in DOMAIN report.value :
            i < j =>
                LET a == report.value[i]
                    b == report.value[j]
                IN \/ a.percentage < b.percentage
                   \/ /\ a.percentage = b.percentage
                      /\ students[a.student].roll_number < students[b.student].roll_number

\* C15 as amended: the list is ascending by percentage, and of two entries of
\* equal percentage the student that has records is never behind the student
\* that has none.
C15_AscendingRecordedFirst ==
    report.op = "defaulters" =>
        \A i, j \in DOMAIN report.value :
            i < j =>
                LET a == report.value[i]
                    b == report.value[j]
                    Recorded(e) == \E r \in DOMAIN ledger : r.student_id = e.student
                IN /\ a.percentage <= b.percentage
                   /\ a.percentage = b.percentage => (Recorded(b) => Recorded(a))

\* a list of two students of different percentages, and the same two listed
\* for a ledger in which the query returns the higher one first
C15_Witness_TwoEntries ==
    /\ report.op = "defaulters"
    /\ Len(report.value) = 2
    /\ report.value[1].percentage < report.value[2].percentage
    /\ report.value[1].student > report.value[2].student

\* the records of the summarised student for one subject
SubjectRecords(subject_id) ==
    RowsIn(ledger, {r \in DOMAIN ledger : /\ r.student_id = report.student_id
                                          /\ r.subject_id = subject_id})

\* C16: subjectBreakdown(student) has exactly one entry for every subject of
\* the student's program and current semester and none for another subject;
\* an entry's total and present are the student's record counts for the
\* subject (present counting Present, Late and OD), and a subject without
\* records appears with total = 0 and percentage = 0.
C16_BreakdownCoversSemesterSubjects ==
    (report.op = "summary" /\ report.student_id \in DOMAIN students) =>
        LET list == report.subject_wise
            student == students[report.student_id]
        IN /\ \A id \in DOMAIN subjects :
                 Cardinality({i \in DOMAIN list : list[i].subject = id})
                    = IF /\ subjects[id].program_id = student.program_id
                         /\ subjects[id].semester = student.semester
                      THEN 1 ELSE 0
           /\ \A i \in DOMAIN list :
                 /\ list[i].subject \in DOMAIN subjects
                 /\ list[i].total = BagCardinality(SubjectRecords(list[i].subject))
                 /\ list[i].present
                       = BagCardinality(RowsIn(ledger,
                            {r \in DOMAIN SubjectRecords(list[i].subject) :
                                r.status \in {"Present", "Late", "OD"}}))
                 /\ list[i].total = 0 => list[i].percentage = 0

\* a breakdown whose only entry is a subject of the semester without records,
\* while the student has records for the subject of another semester
C16_Witness_ZeroAndExcluded ==
    /\ report.op = "summary"
    /\ Len(report.subject_wise) = 1
    /\ report.subject_wise[1].total = 0
    /\ report.subject_wise[1].percentage = 0
    /\ \E r \in DOMAIN ledger : /\ r.student_id = report.student_id
                                 /\ r.subject_id # report.subject_wise[1].subject
                                 /\ r.status \in {"Late", "OD"}

\* C17: recordSession is atomic under interleaving: in every step the
\* committed ledger, which is what a concurrent percentage read or a
\* concurrent recordSession sees, either stays as it is or changes from the
\* complete old set to the complete new set of one call (the replacement of
\* the session by all entries of that call); a call that fails partway leaves
\* the ledger as it was, and a read returns the percentage of the committed
\* ledger.
C17_CommittedLedgerOldOrNew ==
    [][/\ \/ ledger' = ledger
          \/ \E q \in Requests :
                /\ inflight[q].pc = "writing"
                /\ inflight'[q] = IdleReq
                /\ ledger' = ReplaceSession(ledger, inflight[q].subject_id,
                                            inflight[q].teacher_id, inflight[q].date,
                                            inflight[q].session_type, inflight[q].period,
                                            inflight[q].attendance_data)
       /\ \A q \in Requests :
             (/\ inflight[q].pc = "writing"
              /\ inflight[q].todo # <<>>
              /\ inflight'[q] = IdleReq) => ledger' = ledger
       /\ (report = NoReport /\ report' # NoReport) =>
             LET rows == RowsIn(ledger, {r \in DOMAIN ledger :
                                            r.student_id = report'.student_id})
                 good == RowsIn(rows, {r \in DOMAIN rows : r.status = "Present"})
             IN report'.value = IF BagCardinality(rows) = BagCardinality(good)
                                   /\ BagCardinality(rows) > 0
                                THEN 10000 ELSE 0]_vars

\* a percentage was read while a POST had deleted the stored rows of the
\* session and inserted one of its two entries, and the read saw the stored
\* row
C17_Witness_ReadDuringWrite ==
    \E q \in Requests :
        /\ inflight[q].pc = "writing"
        /\ Len(inflight[q].todo) = 1
        /\ Len(inflight[q].attendance_data) = 2
        /\ BagCardinality(SessionBag(ledger, inflight[q].subject_id, inflight[q].teacher_id,
                                     inflight[q].date, inflight[q].session_type,
                                     inflight[q].period)) > 0
        /\ inflight[q].work # ledger
        /\ report # NoReport
        /\ report.value = 10000

\* the records of L stored for another key than (subject, date, session type,
\* period)
OtherKeys(L, subject_id, date, session_type, period) ==
    RowsIn(L, {r \in DOMAIN L :
        <<r.subject_id, r.date, r.session_type, r.period>>
            # <<subject_id, date, session_type, period>>})

\* C18: recordSession on a key leaves every record of another (subject, date,
\* session type, period) as it is, whoever calls and whatever the call
\* answers, so teachers recording different subjects or sessions in any order
\* do not affect each other's records.
C18_OtherKeysUntouched ==
    \A u \in Teachers, subject_id \in SubjectIds, date_str \in DateStrs, s \in Sessions,
       items \in Payloads :
        \A res \in MarkResults(ledger, TeacherOf(u), subject_id, date_str, s[1], s[2], items) :
            OtherKeys(res.ledger, subject_id, date_str, s[1], s[2])
                = OtherKeys(ledger, subject_id, date_str, s[1], s[2])

\* the two teachers have recorded different subjects on the same day and
\* session, and both records are stored
C18_Witness_TwoTeachersTwoSubjects ==
    \E r1, r2 \in DOMAIN ledger :
        /\ r1.teacher_id # r2.teacher_id
        /\ r1.subject_id # r2.subject_id
        /\ r1.date = r2.date
        /\ r1.session_type = r2.session_type
        /\ r1.period = r2.period

\* C19: recordSession that references a subject or a student that does not
\* exist fails with the not-found error and writes nothing: no record of the
\* ledger refers to a student or a subject that is absent from the roster.
C19_UnknownReferencesRefused ==
    /\ \A r \in DOMAIN ledger :
          /\ r.student_id \in DOMAIN students
          /\ r.subject_id \in DOMAIN subjects
    /\ \A u \in Teachers, subject_id \in SubjectIds \cup {Missing},
          items \in SeqsUpTo(ForeignItems, MaxRows) :
          (\/ subject_id \notin DOMAIN subjects
           \/ \E i \in DOMAIN items : items[i].student_id \notin DOMAIN students) =>
              \A res \in MarkResults(ledger, TeacherOf(u), subject_id, 1, "FN", "None", items) :
                  /\ res.response = NotFound
                  /\ res.ledger = ledger

\* C20: a record with is_locked = true is frozen: no operation (recordSession
\* by any teacher, approveLeave, rejectLeave) changes its status or remarks or
\* deletes it.
C20_LockedRecordsFrozen ==
    [][\A r \in DOMAIN ledger :
          r.is_locked => (r \in DOMAIN ledger' /\ ledger'[r] >= ledger[r])]_vars

\* C21: every leave request stored by the leave application satisfies
\* from_date <= to_date.
C21_LeaveRangeOrdered ==
    \A i \in DOMAIN leaves : leaves[i].from_date <= leaves[i].to_date

\* C22: a teacher records attendance only for assigned classes: every record
\* written by teacher T for subject S has a TeacherSubject row binding T to S.
C22_OnlyAssignedSubjectsRecorded ==
    \A r \in DOMAIN ledger : <<r.teacher_id, r.subject_id>> \in TeacherSubject

\* C23: login lockout: no failed_attempts counter exceeds 5; while a counter
\* is 5 or more every login attempt for the account is rejected without
\* creating a session, also with the correct password; a successful login
\* resets the counter to 0; no login attempt lowers a counter that has
\* reached 5.
C23_LoginLockout ==
    /\ \A u \in DOMAIN users : users[u].failed_attempts <= 5
    /\ \A username \in LoginNames, password \in Passwords :
          LET res == LoginResult(users, session, username, password) IN
          /\ (username \in DOMAIN users /\ users[username].failed_attempts >= 5) =>
                /\ res.response \notin {Welcome, InvalidCredentials}
                /\ res.session = session
          /\ res.session # session =>
                /\ res.session.user_id = username
                /\ password = "right"
                /\ res.users[username].failed_attempts = 0
          /\ \A u \in DOMAIN users :
                /\ res.users[u].failed_attempts <= 5
                /\ users[u].failed_attempts >= 5 =>
                      res.users[u].failed_attempts >= users[u].failed_attempts

\* one account is locked at 5 failed attempts while another account, which
\* had failed before, is logged in with its counter back at 0, and a third one
\* has failed attempts below 5
C23_Witness_LockedAndLoggedIn ==
    \E u, v \in DOMAIN users :
        /\ users[u].failed_attempts = 5
        /\ session # NoSession
        /\ session.user_id # u
        /\ users[session.user_id].failed_attempts = 0
        /\ users[v].failed_attempts \in 1..4

\* the ledger without the records of other students than the one of the user
\* that asked
OwnLedger ==
    RowsIn(ledger, {r \in DOMAIN ledger : r.student_id = StudentOf(report.user)})

\* C24: a student reads only their own attendance: the summary API answers
\* Unauthorized for any student_id other than the student's own, the
\* attendance view of a student lists only records of that student, and what
\* the student is shown is what would be shown if the ledger held no record of
\* another student.
C24_StudentReadsOwnRecordsOnly ==
    (report.op \in {"summary", Unauthorized, "view"} /\ Role(report.user) = "student") =>
        /\ report.op = Unauthorized <=>
              (report.op # "view" /\ report.student_id # StudentOf(report.user))
        /\ report.op = "summary" =>
              /\ report.overall_percentage
                    = calculate_attendance_percentage(OwnLedger, report.student_id, 0, 0, 0)
              /\ report.subject_wise
                    \in get_student_subject_attendance(OwnLedger, students, subjects,
                                                      report.student_id)
        /\ report.op = "view" =>
              /\ \A i \in DOMAIN report.value :
                    report.value[i].student_id = StudentOf(report.user)
              /\ report.value \in ViewLists(OwnLedger, students, subjects, report.user)

\* a student was shown a view of its record while the ledger holds a record
\* of the other student
C24_Witness_OwnRecordBesideOthers ==
    /\ report.op = "view"
    /\ Role(report.user) = "student"
    /\ Len(report.value) = 1
    /\ \E r \in DOMAIN ledger : r.student_id # StudentOf(report.user)

\* C25: the list of get_defaulter_students names each student at most once:
\* the students taken from the per-student aggregate and the students added
\* as having no record are disjoint, for every ledger.
C25_DefaultersListedOnce ==
    /\ report.op = "defaulters" =>
          \A i, j \in DOMAIN report.value :
              report.value[i].student = report.value[j].student => i = j
    /\ \A id \in JoinedAgg(ledger, students) \cap ZeroRecords(ledger, students) :
          \A r \in DOMAIN ledger : r.student_id # id

\* a list of two students at 0.0: one with an Absent record, taken from the
\* aggregate, and one without any record
C25_Witness_AggregateAndZero ==
    /\ report.op = "defaulters"
    /\ Len(report.value) = 2
    /\ report.value[1].percentage = 0
    /\ report.value[2].percentage = 0
    /\ \E r \in DOMAIN ledger : r.student_id = report.value[1].student
    /\ \A r \in DOMAIN ledger : r.student_id # report.value[2].student

====
